---------------------------- MODULE Spec2Model ----------------------------
(***************************************************************************)
(* Model of iaret/tools/generate_holo.py: the driver main() that walks the *)
(* MAPPINGS table and the image pipeline create_wireframe().               *)
(*                                                                         *)
(* Images are grids: functions from pixel coordinates <<x, y>> to 8-bit    *)
(* samples (or to <<r, g, b, a>> tuples).  The numpy and Pillow calls of   *)
(* the source are modelled by what they compute: float32 products and sums *)
(* are rounded to 24 significant bits, casts to uint8 truncate, the 3x3    *)
(* and 5x5 kernels copy the border pixels of their input, the Gaussian     *)
(* blur is Pillow's three-pass box blur, and alpha_composite is Pillow's   *)
(* integer "over" operator.                                                *)
(***************************************************************************)
EXTENDS Integers, Sequences, FiniteSets, TLC

-----------------------------------------------------------------------------
(* Bounds of the model *)

\* side length of the square images of the image-level specification
Side == 5
\* number of MAPPINGS entries the driver walks in the model
NumEntries == 3
\* sampling step of the edge / contour / luminance values drawn in the
\* single-pixel specification
EdgeStep == 12
ContourStep == 17
GrayStep == 51

-----------------------------------------------------------------------------
(* Integer helpers *)

Min(a, b) == IF a < b THEN a ELSE b
Max(a, b) == IF a > b THEN a ELSE b

RECURSIVE Pow2(_)
Pow2(n) == IF n = 0 THEN 1 ELSE 2 * Pow2(n - 1)

\* floor(log2(n)) for n >= 1
RECURSIVE Log2(_)
Log2(n) == IF n < 2 THEN 0 ELSE 1 + Log2(n \div 2)

\* clamp an integer to [lo, hi]  (np.clip on values that are integers)
Clamp(v, lo, hi) == Max(lo, Min(hi, v))

-----------------------------------------------------------------------------
(* float32 arithmetic (numpy, dtype=np.float32).                           *)
(* A non-negative float32 value below 1024 is the pair <<hi, lo>> standing *)
(* for hi + lo / 2^27; every value the pipeline produces is a multiple of  *)
(* 2^-27.  F32Round rounds such a value to 24 significant bits, to nearest,*)
(* ties to even, as IEEE-754 single precision does after every operation.  *)

F32One == Pow2(27)

F32Round(hi, lo) ==
    LET s  == IF hi = 0
              THEN (IF lo < Pow2(24) THEN 1 ELSE Pow2(Log2(lo) - 23))
              ELSE Pow2(Log2(hi) + 4)
        q  == lo \div s
        r  == lo % s
        up == (2 * r > s) \/ (2 * r = s /\ q % 2 = 1)
        l2 == (IF up THEN q + 1 ELSE q) * s
    IN  IF l2 >= F32One THEN <<hi + 1, l2 - F32One>> ELSE <<hi, l2>>

\* n * (M * 2^-e) for an integer sample n in 0..255 and a float32 constant
\* with 24-bit significand M (24 <= e <= 27), rounded to float32
F32MulInt(n, M, e) ==
    LET f  == Pow2(27 - e)
        A  == n * (M \div 4096) * f
        B  == n * (M % 4096) * f
        T  == (A % 32768) * 4096 + B
    IN  F32Round((A \div 32768) + (T \div F32One), T % F32One)

\* num / 2^k for an integer num: exact in float32 for the values used here
F32Dyadic(num, k) == <<num \div Pow2(k), (num % Pow2(k)) * Pow2(27 - k)>>

F32Add(a, b) ==
    LET l == a[2] + b[2]
    IN  F32Round(a[1] + b[1] + (l \div F32One), l % F32One)

\* a * 2.5, rounded to float32
F32Mul2p5(a) ==
    LET l5 == a[2] * 5
        h5 == a[1] * 5 + (l5 \div F32One)
        lo == (l5 % F32One) + (h5 % 2) * F32One
    IN  F32Round(h5 \div 2, lo \div 2)

\* np.clip(a, 0, hi) on a non-negative float32 value
F32Clip(a, hi) == IF a[1] >= hi THEN <<hi, 0>> ELSE a

\* .astype(np.uint8) of a value in [0, 255]: truncation toward zero
F32Trunc(a) == a[1]

-----------------------------------------------------------------------------
(* Per-pixel arithmetic of create_wireframe *)

HOLO_CYAN == <<0, 255, 220>>
HOLO_VIOLET == <<147, 51, 234>>
Transparent == <<0, 0, 0, 0>>

\* arr_fine * 0.5 + arr_medium * 0.3 + arr_coarse * 0.2, clipped to [0, 255]
\* (float32; 0.3 and 0.2 are the float32 constants 5033165 * 2^-24 and
\* 13421773 * 2^-26)
WeightedSum(f, m, c) ==
    F32Clip(F32Add(F32Add(F32Dyadic(f, 1), F32MulInt(m, 5033165, 24)),
                   F32MulInt(c, 13421773, 26)), 255)

\* np.clip(combined * 2.5, 0, 255).astype(np.uint8)
Boost(s) == F32Trunc(F32Clip(F32Mul2p5(s), 255))

\* variants of the noise floor: the threshold mistyped as 20, and no floor
NoiseFloorAt20(v) == IF v < 20 THEN 0 ELSE v
NoNoiseFloor(v) == v

\* combined[combined < 30] = 0
NoiseFloor(v) == IF v < 30 THEN 0 ELSE v

\* the combined edge value of one pixel
Combine(f, m, c) == NoiseFloor(Boost(WeightedSum(f, m, c)))

\* edge_mask = combined > 0
EdgeMask(comb) == comb > 0

\* np.clip(combined * 0.9, 0, 255).astype(np.uint8): uint8 * Python float is
\* float64, whose rounding never crosses an integer here, so the cast yields
\* floor(9 * combined / 10)
EdgeAlpha(comb) == Clamp((9 * comb) \div 10, 0, 255)

\* np.clip(arr_offset * 1.5, 0, 255).astype(np.uint8)   (exact in float32)
ContourScaled(v) == F32Trunc(F32Clip(F32Dyadic(3 * v, 1), 255))

\* variant: the offset mask without the exclusion of the edge mask
OffsetMaskNoExclusion(cs, em) == cs > 40

\* offset_mask = (arr_offset > 40) & ~edge_mask
OffsetMask(cs, em) == (cs > 40) /\ ~em

\* np.clip(arr_offset * 0.4, 0, 180).astype(np.uint8)   (float64, as EdgeAlpha)
OffsetAlpha(cs) == Clamp((4 * cs) \div 10, 0, 180)

\* variant: the faint mask without the exclusion of the offset mask
FaintMaskIgnoresOffset(g, em, om) == (g > 30) /\ ~em

\* faint_mask = (orig_gray > 30) & ~edge_mask & ~offset_mask
FaintMask(g, em, om) == (g > 30) /\ ~em /\ ~om

\* variant: the faint alpha computed with the scale and cap of the green line
FaintAWithGreenScale(g) == F32Trunc(F32Clip(F32Dyadic(g, 2), 80))

\* np.clip(orig_gray * 0.25, 0, 80), * 0.22 clipped to 70, * 0.12 clipped to
\* 40, each cast to uint8 (float32; 0.22 = 7381975 * 2^-25 and
\* 0.12 = 16106127 * 2^-27)
FaintG(g) == F32Trunc(F32Clip(F32Dyadic(g, 2), 80))
FaintB(g) == F32Trunc(F32Clip(F32MulInt(g, 7381975, 25), 70))
FaintA(g) == F32Trunc(F32Clip(F32MulInt(g, 16106127, 27), 40))

\* np.clip(alpha.astype(np.float32) * 0.5, 0, 128).astype(np.uint8)
GlowAlpha(a) == F32Trunc(F32Clip(F32Dyadic(a, 1), 128))

-----------------------------------------------------------------------------
(* Grids and the Pillow operations applied to them *)

\* the pixel coordinates <<x, y>> of an image of size sz = <<w, h>>
Pixels(sz) == (0 .. sz[1] - 1) \X (0 .. sz[2] - 1)

\* a buffer that has not been assigned yet
NoGrid == [p \in {} |-> 0]

\* img.convert("L"): Pillow's ITU-R 601-2 luma of the R, G, B samples,
\* (19595 R + 38470 G + 7471 B + 0x8000) >> 16; the alpha sample is ignored
Luma(px) == (px[1] * 19595 + px[2] * 38470 + px[3] * 7471 + 32768) \div 65536

ToGray(rgba, sz) == [p \in Pixels(sz) |-> Luma(rgba[p])]

\* sum of the (2r+1) x (2r+1) neighbourhood of p, the centre included
BlockSum(g, p, r) ==
    LET RECURSIVE Row(_, _)
        Row(dx, y) == IF dx > r THEN 0 ELSE g[<<p[1] + dx, y>>] + Row(dx + 1, y)
        RECURSIVE Rows(_)
        Rows(dy) == IF dy > r THEN 0 ELSE Row(-r, p[2] + dy) + Rows(dy + 1)
    IN  Rows(-r)

\* gray.filter(Kernel): the centre weighted (2r+1)^2 - 1, every other cell
\* -1, scale 1, plus `offset`, clipped to 8 bits.  Pillow returns a copy of
\* an image smaller than the kernel and copies the r border rows and columns
\* of its input unchanged.
KernelFilter(g, sz, r, offset) ==
    LET n == (2 * r + 1) * (2 * r + 1)
        inner(p) == /\ p[1] >= r /\ p[1] < sz[1] - r
                    /\ p[2] >= r /\ p[2] < sz[2] - r
    IN  [p \in Pixels(sz) |->
            IF inner(p)
            THEN Clamp(n * g[p] - BlockSum(g, p, r) + offset, 0, 255)
            ELSE g[p]]

\* the 3x3 kernel [-1 -1 -1, -1 8 -1, -1 -1 -1], scale 1, offset 0
EdgesFine(g, sz) == KernelFilter(g, sz, 1, 0)
\* ImageFilter.FIND_EDGES: the same 3x3 kernel, scale 1, offset 0
EdgesMedium(g, sz) == KernelFilter(g, sz, 1, 0)
\* the 5x5 kernel with centre 24, scale 1, offset 0
EdgesCoarse(g, sz) == KernelFilter(g, sz, 2, 0)
\* ImageFilter.CONTOUR: the same 3x3 kernel, scale 1, offset 255
EdgesContour(g, sz) == KernelFilter(g, sz, 1, 255)

\* One output sample of Pillow's box blur of radius 1.375, the radius its
\* Gaussian approximation derives from radius=2 and three passes:
\*   (acc * ww + far * fw + 2^23) >> 24, ww = 2^24 / 3.75 = 4473924,
\*   fw = (2^24 - 3 ww) / 2 = 1677722,
\* acc the sum of the three centre samples and far the sum of the two outer
\* ones.  The 32-bit unsigned product is computed in two 12-bit halves:
\* ww = 1092 * 4096 + 1092 and fw = 409 * 4096 + 2458.
BoxOut(acc, far) ==
    LET A == acc * 1092 + far * 409
        B == acc * 1092 + far * 2458
    IN  (A + ((B + 8388608) \div 4096)) \div 4096

\* one horizontal (dir = 1) or vertical (dir = 2) box-blur pass over one
\* channel ch of an RGBA grid; samples beyond the border repeat the border
BlurSample(g, sz, p, ch, dir) ==
    LET at(d) == LET c == Clamp(p[dir] + d, 0, sz[dir] - 1)
                 IN  g[IF dir = 1 THEN <<c, p[2]>> ELSE <<p[1], c>>][ch]
    IN  BoxOut(at(-1) + at(0) + at(1), at(-2) + at(2))

\* (@@ tabulates the function, so that a later pass reads stored samples)
BoxBlurPass(g, sz, dir) ==
    [p \in Pixels(sz) |-> <<BlurSample(g, sz, p, 1, dir), BlurSample(g, sz, p, 2, dir),
                            BlurSample(g, sz, p, 3, dir), BlurSample(g, sz, p, 4, dir)>>]
        @@ NoGrid

\* out_img.filter(ImageFilter.GaussianBlur(radius=2)): three horizontal box
\* passes, then three vertical ones, on each of the four bands; every pass
\* reads the finished output of the pass before it
GaussianBlur(g, sz) ==
    LET P(in, dir) == BoxBlurPass(in, sz, dir)
        horizontal == {P(b, 1) : b \in {P(a, 1) : a \in {P(g, 1)}}}
        vertical   == {P(e, 2) : e \in {P(d, 2) : d \in {P(c, 2) : c \in horizontal}}}
    IN  CHOOSE out \in vertical : TRUE

\* glow_arr[:, :, 3] = clip(alpha * 0.5, 0, 128)
Attenuate(g, sz) ==
    [p \in Pixels(sz) |-> <<g[p][1], g[p][2], g[p][3], GlowAlpha(g[p][4])>>]

\* Pillow's SHIFTFORDIV255: ((a >> 8) + a) >> 8
ShiftForDiv255(a) == ((a \div 256) + a) \div 256

\* variant: the top image alone, the layer below dropped
OverTopOnly(dst, src) == src

\* Image.alpha_composite on one pixel: src over dst, Pillow's integer
\* implementation with 7 extra bits of precision
Over(dst, src) ==
    IF src[4] = 0 THEN dst
    ELSE LET blend   == dst[4] * (255 - src[4])
             outa255 == src[4] * 255 + blend
             coef1   == (src[4] * 255 * 255 * 128) \div outa255
             coef2   == 255 * 128 - coef1
             chan(i) == ShiftForDiv255(src[i] * coef1 + dst[i] * coef2 + 16384)
                            \div 128
         IN  <<chan(1), chan(2), chan(3), ShiftForDiv255(outa255 + 128)>>

\* Image.alpha_composite(glow_img, out_img): glow below, sharp image on top
AlphaComposite(bottom, top, sz) == [p \in Pixels(sz) |-> Over(bottom[p], top[p])]

-----------------------------------------------------------------------------
(* Files *)

\* A source file is named by what it holds: <<"missing", 0, 0>> (no such
\* file), <<"corrupt", 0, 0>> (bytes that do not decode), or an image:
\*   <<"uniform", a, a>>  every pixel of grey level a
\*   <<"dot", a, b>>      grey level a with the centre pixel of level b
\*   <<"split", a, b>>    left columns of level a, right columns of level b
\*   <<"pixel", a, a>>    a 1 x 1 image of level a
\* All pixels are opaque.
Missing == <<"missing", 0, 0>>
Corrupt == <<"corrupt", 0, 0>>

IsImage(id) == id[1] \in {"uniform", "dot", "split", "pixel"}

SizeOf(id) == IF id[1] = "pixel" THEN <<1, 1>> ELSE <<Side, Side>>

Level(id, p) ==
    CASE id[1] = "dot"   -> IF p = <<Side \div 2, Side \div 2>> THEN id[3] ELSE id[2]
      [] id[1] = "split" -> IF p[1] < (Side + 1) \div 2 THEN id[2] ELSE id[3]
      [] OTHER           -> id[2]

\* Image.open(src_path).convert("RGBA")
Decode(id) == [p \in Pixels(SizeOf(id)) |->
                  <<Level(id, p), Level(id, p), Level(id, p), 255>>]

\* A destination file: absent, empty (created or truncated by open), partial
\* (some of the PNG stream written), or complete with the image it holds.
Absent == [state |-> "absent", data |-> NoGrid]
Empty == [state |-> "empty", data |-> NoGrid]
Partial == [state |-> "partial", data |-> NoGrid]
Complete(g) == [state |-> "complete", data |-> g]

\* what an earlier run of the generator left at a destination
Stale == Complete([p \in Pixels(<<1, 1>>) |-> <<255, 255, 255, 255>>])

-----------------------------------------------------------------------------
(* State *)

VARIABLES
    drv,         \* position of main: "start", "loop", "call", "done", "raised"
    idx,         \* index of the MAPPINGS entry the loop is at
    srcFile,     \* srcFile[i]: what ASSET_DIR / src_name of entry i holds
    dstFile,     \* dstFile[i]: what HOLO_DIR / dst_name of entry i holds
    status,      \* status[i]: "pending", "skipped", "completed", "failed"
    calls,       \* calls[i]: number of create_wireframe invocations for entry i
    dstBefore,   \* the destination file as it was when the invocation began
    created,     \* whether save created the destination file
    produced,    \* history: <<source, image>> for every image saved
    pc,          \* position inside create_wireframe
    size,        \* w, h = img.size
    img, gray, combined, edge_mask, arr_offset, offset_mask, faint_mask,
    result,      \* the RGBA buffer the layers are painted into
    glow_arr,    \* the blurred, attenuated copy
    final        \* the composite that is saved

driverVars == <<drv, idx, srcFile, dstFile, status, calls, dstBefore, created, produced>>
bufVars == <<size, img, gray, combined, edge_mask, arr_offset, offset_mask,
             faint_mask, result, glow_arr, final>>
vars == <<driverVars, pc, bufVars>>

Entries == 1 .. NumEntries

\* what a source file may hold in the image-level specification: all black;
\* white with a black centre; grey left of a white right half
SourceChoices ==
    {Missing, Corrupt, <<"uniform", 0, 0>>, <<"dot", 255, 0>>, <<"split", 100, 255>>}

\* what a source file may hold in the specification of the driver
DriverChoices == {Missing, Corrupt, <<"dot", 255, 0>>}

NoBuffers ==
    /\ size = <<0, 0>>
    /\ img = NoGrid /\ gray = NoGrid /\ combined = NoGrid
    /\ edge_mask = NoGrid /\ arr_offset = NoGrid /\ offset_mask = NoGrid
    /\ faint_mask = NoGrid /\ result = NoGrid /\ glow_arr = NoGrid
    /\ final = NoGrid

InitWith(choices) ==
    /\ drv = "start"
    /\ idx = 1
    /\ srcFile \in [Entries -> choices]
    /\ \E rerun \in BOOLEAN :
          dstFile = [i \in Entries |-> IF rerun THEN Stale ELSE Absent]
    /\ status = [i \in Entries |-> "pending"]
    /\ calls = [i \in Entries |-> 0]
    /\ dstBefore = Absent
    /\ created = FALSE
    /\ produced = {}
    /\ pc = "idle"
    /\ NoBuffers

Init == InitWith(SourceChoices)

-----------------------------------------------------------------------------
(* main *)

\* lines 116-120: create HOLO_DIR, print the banner
Start ==
    /\ drv = "start"
    /\ drv' = "loop"
    /\ UNCHANGED <<idx, srcFile, dstFile, status, calls, dstBefore, created,
                   produced, pc, bufVars>>

\* variant: a missing source ends the loop (break for continue)
LoopSkipStops ==
    /\ drv = "loop" /\ idx <= NumEntries
    /\ srcFile[idx] = Missing
    /\ status' = [status EXCEPT ![idx] = "skipped"]
    /\ drv' = "done"
    /\ UNCHANGED <<idx, srcFile, dstFile, calls, dstBefore, created, produced,
                   pc, bufVars>>

\* lines 122-127: the source of the entry does not exist: report, continue
LoopSkip ==
    /\ drv = "loop" /\ idx <= NumEntries
    /\ srcFile[idx] = Missing
    /\ status' = [status EXCEPT ![idx] = "skipped"]
    /\ idx' = idx + 1
    /\ UNCHANGED <<drv, srcFile, dstFile, calls, dstBefore, created, produced,
                   pc, bufVars>>

\* line 128: create_wireframe(src, dst) is entered
LoopCall ==
    /\ drv = "loop" /\ idx <= NumEntries
    /\ srcFile[idx] # Missing
    /\ drv' = "call"
    /\ pc' = "entry"
    /\ calls' = [calls EXCEPT ![idx] = @ + 1]
    /\ dstBefore' = dstFile[idx]
    /\ UNCHANGED <<idx, srcFile, dstFile, status, created, produced, bufVars>>

\* line 130: the table is exhausted, print "Done!"
LoopDone ==
    /\ drv = "loop" /\ idx > NumEntries
    /\ drv' = "done"
    /\ UNCHANGED <<idx, srcFile, dstFile, status, calls, dstBefore, created,
                   produced, pc, bufVars>>

-----------------------------------------------------------------------------
(* create_wireframe.  The buffers keep their last contents in the state    *)
(* after the call returns: the code drops them, and every invocation       *)
(* assigns each buffer before it reads it.                                 *)

\* an exception leaves create_wireframe and, main having no handler, main
Raise ==
    /\ drv' = "raised"
    /\ pc' = "idle"
    /\ status' = [status EXCEPT ![idx] = "failed"]

\* lines 33-36: open and decode the source, derive the luminance image
OpenOk ==
    /\ drv = "call" /\ pc = "entry"
    /\ IsImage(srcFile[idx])
    /\ size' = SizeOf(srcFile[idx])
    /\ img' = Decode(srcFile[idx])
    /\ gray' = ToGray(img', size')
    /\ pc' = "opened"
    /\ UNCHANGED <<driverVars, combined, edge_mask, arr_offset, offset_mask,
                   faint_mask, result, glow_arr, final>>

\* line 33: Image.open raises on bytes that are no image
OpenFail ==
    /\ drv = "call" /\ pc = "entry"
    /\ ~IsImage(srcFile[idx])
    /\ Raise
    /\ UNCHANGED <<idx, srcFile, dstFile, calls, dstBefore, created, produced,
                   bufVars>>

\* lines 58-68 on the three edge maps
EdgeDetectWith(fine, medium, coarse) ==
    /\ drv = "call" /\ pc = "opened"
    /\ combined' = [p \in Pixels(size) |-> Combine(fine[p], medium[p], coarse[p])]
    /\ pc' = "combined"
    /\ UNCHANGED <<driverVars, size, img, gray, edge_mask, arr_offset,
                   offset_mask, faint_mask, result, glow_arr, final>>

\* lines 39-68: the three kernels, then the combination
EdgeDetect ==
    /\ pc = "opened"
    /\ \E fine \in {EdgesFine(gray, size)}, medium \in {EdgesMedium(gray, size)},
          coarse \in {EdgesCoarse(gray, size)} :
          EdgeDetectWith(fine, medium, coarse)

\* variant: the buffer of the previous invocation reused when it has the size
StaleResult(sz) ==
    IF DOMAIN result = Pixels(sz) THEN result ELSE [p \in Pixels(sz) |-> Transparent]

\* line 72: result = np.zeros((h, w, 4), dtype=np.uint8)
ZeroResult(sz) == [p \in Pixels(sz) |-> Transparent]

\* lines 71-79: a fresh transparent buffer, then the cyan layer
PaintEdge ==
    /\ drv = "call" /\ pc = "combined"
    /\ edge_mask' = [p \in Pixels(size) |-> EdgeMask(combined[p])]
    /\ result' = [p \in Pixels(size) |->
                    IF edge_mask'[p]
                    THEN <<HOLO_CYAN[1], HOLO_CYAN[2], HOLO_CYAN[3],
                           EdgeAlpha(combined[p])>>
                    ELSE ZeroResult(size)[p]]
    /\ pc' = "edge"
    /\ UNCHANGED <<driverVars, size, img, gray, combined, arr_offset,
                   offset_mask, faint_mask, glow_arr, final>>

\* lines 83-89 on the contour map
PaintOffsetWith(contour) ==
    /\ drv = "call" /\ pc = "edge"
    /\ arr_offset' = [p \in Pixels(size) |-> ContourScaled(contour[p])]
    /\ offset_mask' = [p \in Pixels(size) |->
                          OffsetMask(arr_offset'[p], edge_mask[p])]
    /\ result' = [p \in Pixels(size) |->
                    IF offset_mask'[p]
                    THEN <<HOLO_VIOLET[1], HOLO_VIOLET[2], HOLO_VIOLET[3],
                           OffsetAlpha(arr_offset'[p])>>
                    ELSE result[p]]
    /\ pc' = "offset"
    /\ UNCHANGED <<driverVars, size, img, gray, combined, edge_mask,
                   faint_mask, glow_arr, final>>

\* lines 82-89: the contour filter, then the violet layer
PaintOffset ==
    /\ pc = "edge"
    /\ \E contour \in {EdgesContour(gray, size)} : PaintOffsetWith(contour)

\* lines 92-99: the faint fill from the luminance
PaintFaint ==
    /\ drv = "call" /\ pc = "offset"
    /\ faint_mask' = [p \in Pixels(size) |->
                         FaintMask(gray[p], edge_mask[p], offset_mask[p])]
    /\ result' = [p \in Pixels(size) |->
                    IF faint_mask'[p]
                    THEN <<0, FaintG(gray[p]), FaintB(gray[p]), FaintA(gray[p])>>
                    ELSE result[p]]
    /\ pc' = "faint"
    /\ UNCHANGED <<driverVars, size, img, gray, combined, edge_mask,
                   arr_offset, offset_mask, glow_arr, final>>

\* lines 101-107: blur the painted image, halve and cap its alpha
Glow ==
    /\ drv = "call" /\ pc = "faint"
    /\ \E glow \in {GaussianBlur(result, size)} :
          glow_arr' = Attenuate(glow, size)
    /\ pc' = "glow"
    /\ UNCHANGED <<driverVars, size, img, gray, combined, edge_mask,
                   arr_offset, offset_mask, faint_mask, result, final>>

\* line 109: the sharp image over the glow
Composite ==
    /\ drv = "call" /\ pc = "glow"
    /\ final' = AlphaComposite(glow_arr, result, size)
    /\ pc' = "composited"
    /\ UNCHANGED <<driverVars, size, img, gray, combined, edge_mask,
                   arr_offset, offset_mask, faint_mask, result, glow_arr>>

\* line 110, final.save: the destination is opened "w+b", which creates it
\* or truncates what it held
SaveOpen ==
    /\ drv = "call" /\ pc = "composited"
    /\ created' = (dstFile[idx].state = "absent")
    /\ dstFile' = [dstFile EXCEPT ![idx] = Empty]
    /\ pc' = "writing"
    /\ UNCHANGED <<drv, idx, srcFile, status, calls, dstBefore, produced, bufVars>>

\* line 110: the destination cannot be opened for writing
SaveOpenFail ==
    /\ drv = "call" /\ pc = "composited"
    /\ Raise
    /\ UNCHANGED <<idx, srcFile, dstFile, calls, dstBefore, created, produced,
                   bufVars>>

\* line 110: the first part of the PNG stream reaches the file
SaveChunk ==
    /\ drv = "call" /\ pc = "writing"
    /\ dstFile[idx] = Empty
    /\ dstFile' = [dstFile EXCEPT ![idx] = Partial]
    /\ UNCHANGED <<drv, idx, srcFile, status, calls, dstBefore, created,
                   produced, pc, bufVars>>

\* line 110: the rest of the stream is written and the file closed
SaveFinish ==
    /\ drv = "call" /\ pc = "writing"
    /\ dstFile[idx] = Partial
    /\ dstFile' = [dstFile EXCEPT ![idx] = Complete(final)]
    /\ produced' = produced \cup {<<srcFile[idx], final>>}
    /\ pc' = "saved"
    /\ UNCHANGED <<drv, idx, srcFile, status, calls, dstBefore, created, bufVars>>

\* line 110: a write fails; save closes the file, removes it if save had
\* created it, and re-raises
SaveFail ==
    /\ drv = "call" /\ pc = "writing"
    /\ dstFile' = [dstFile EXCEPT ![idx] = IF created THEN Absent ELSE @]
    /\ Raise
    /\ UNCHANGED <<idx, srcFile, calls, dstBefore, created, produced, bufVars>>

\* line 111: report and return to the loop
Return ==
    /\ drv = "call" /\ pc = "saved"
    /\ status' = [status EXCEPT ![idx] = "completed"]
    /\ drv' = "loop"
    /\ idx' = idx + 1
    /\ pc' = "idle"
    /\ UNCHANGED <<srcFile, dstFile, calls, dstBefore, created, produced, bufVars>>

Next ==
    \/ Start \/ LoopSkip \/ LoopCall \/ LoopDone
    \/ OpenOk \/ OpenFail \/ EdgeDetect \/ PaintEdge \/ PaintOffset
    \/ PaintFaint \/ Glow \/ Composite
    \/ SaveOpen \/ SaveOpenFail \/ SaveChunk \/ SaveFinish \/ SaveFail
    \/ Return

Spec == Init /\ [][Next]_vars

\* The driver alone, over fewer source files.  main and create_wireframe are
\* one sequential thread: a step that is enabled is taken.
FairSpec == InitWith(DriverChoices) /\ [][Next]_vars /\ WF_vars(Next)

-----------------------------------------------------------------------------
(* The single-pixel specification: one invocation of create_wireframe on a *)
(* 1 x 1 image, in which the four filters may return any sample.  It       *)
(* covers the arithmetic of the layer compositor for edge, contour and     *)
(* luminance values that the small images of Spec do not produce.          *)

Samples(step) == {v \in 0 .. 255 : v % step = 0}

\* values drawn for the fine, medium and coarse edge maps
EdgeVals == Samples(EdgeStep) \cup {1, 255}
\* values drawn for the contour map (27 and 28 straddle the mask threshold)
ContourVals == Samples(ContourStep) \cup {27, 28, 255}
\* grey levels of the source pixel (30 and 31 straddle the mask threshold)
GrayVals == Samples(GrayStep) \cup {30, 31, 255}

Flat(sz, v) == [p \in Pixels(sz) |-> v]

PxInit ==
    /\ drv = "call"
    /\ idx = 1
    /\ \E v \in GrayVals : srcFile = [i \in {1} |-> <<"pixel", v, v>>]
    /\ dstFile = [i \in {1} |-> Absent]
    /\ status = [i \in {1} |-> "pending"]
    /\ calls = [i \in {1} |-> 1]
    /\ dstBefore = Absent
    /\ created = FALSE
    /\ produced = {}
    /\ pc = "entry"
    /\ NoBuffers

PxEdgeDetect ==
    /\ pc = "opened"
    /\ \E f \in EdgeVals, m \in EdgeVals, c \in EdgeVals :
          EdgeDetectWith(Flat(size, f), Flat(size, m), Flat(size, c))

PxPaintOffset ==
    /\ pc = "edge"
    /\ \E v \in ContourVals : PaintOffsetWith(Flat(size, v))

PxNext ==
    \/ OpenOk \/ PxEdgeDetect \/ PaintEdge \/ PxPaintOffset
    \/ PaintFaint \/ Glow \/ Composite

PixelSpec == PxInit /\ [][PxNext]_vars

-----------------------------------------------------------------------------
(* Properties *)

\* the three layers of the current invocation are painted
Painted == pc \in {"faint", "glow", "composited", "writing", "saved"}
\* the final image of the current invocation exists
Composited == pc \in {"composited", "writing", "saved"}

Covered(p) == edge_mask[p] \/ offset_mask[p] \/ faint_mask[p]

\* C1: at every pixel at most one of edge_mask, offset_mask and faint_mask
\* is true, and so painting the offset layer leaves every edge pixel as it
\* was and painting the faint layer leaves every edge and offset pixel as it
\* was.
C1_MasksExclusive ==
    /\ pc = "offset" \/ Painted =>
          \A p \in Pixels(size) : ~(edge_mask[p] /\ offset_mask[p])
    /\ Painted =>
          \A p \in Pixels(size) : /\ ~(edge_mask[p] /\ faint_mask[p])
                                  /\ ~(offset_mask[p] /\ faint_mask[p])

C1_LayersKept ==
    /\ pc = "edge" /\ pc' = "offset" =>
          \A p \in Pixels(size) : edge_mask[p] => result'[p] = result[p]
    /\ pc = "offset" /\ pc' = "faint" =>
          \A p \in Pixels(size) :
              edge_mask[p] \/ offset_mask[p] => result'[p] = result[p]

C1_MasksDisjoint == [](C1_MasksExclusive) /\ [][C1_LayersKept]_vars

\* a pixel that is an edge, whose contour value passes the offset threshold
\* and whose luminance passes the faint threshold: only the exclusions keep
\* the three masks apart
C1_Witness ==
    /\ Painted
    /\ \E p \in Pixels(size) :
          edge_mask[p] /\ arr_offset[p] > 40 /\ gray[p] > 30

\* C2: an all-black opaque source yields a saved image whose every pixel has
\* alpha 0 and lies in none of the three layers.
C2_BlackIsTransparent ==
    pc = "saved" /\ srcFile[idx] = <<"uniform", 0, 0>> =>
        \A p \in Pixels(size) :
            dstFile[idx].data[p][4] = 0 /\ ~Covered(p)

\* C3 as claimed: in the final image every pixel outside the three masks has
\* alpha 0.
C3_UncoveredTransparent ==
    Composited => \A p \in Pixels(size) : ~Covered(p) => final[p][4] = 0

\* C3 as amended: a pixel outside the three masks is (0,0,0,0) in the painted
\* image, and in the final image it is the pixel of the attenuated glow
\* buffer, whose alpha is at most 128.
C3_UncoveredIsGlow ==
    Composited =>
        \A p \in Pixels(size) :
            ~Covered(p) => /\ result[p] = Transparent
                           /\ final[p] = glow_arr[p]
                           /\ final[p][4] <= 128

\* an uncovered pixel that the glow of its neighbours has made visible
C3_Witness ==
    /\ Composited
    /\ \E p \in Pixels(size) : ~Covered(p) /\ final[p][4] > 0

\* C4: a faint pixel has R = 0, G <= 80, B <= 70, alpha <= 40; an offset
\* pixel has alpha <= 180; every pixel of the attenuated glow buffer has
\* alpha <= 128.
C4_ChannelBands ==
    /\ Painted =>
          \A p \in Pixels(size) :
              /\ faint_mask[p] => /\ result[p][1] = 0
                                  /\ result[p][2] <= 80
                                  /\ result[p][3] <= 70
                                  /\ result[p][4] <= 40
              /\ offset_mask[p] => result[p][4] <= 180
    /\ pc = "glow" \/ Composited =>
          \A p \in Pixels(size) : glow_arr[p][4] <= 128

\* the brightest faint pixel, followed through the glow
C4_Witness ==
    /\ pc = "glow"
    /\ \E p \in Pixels(size) :
          faint_mask[p] /\ gray[p] = 255 /\ result[p][4] = 30 /\ glow_arr[p][4] = 15

\* C5 as claimed: every combined value is 0 or in (30, 255].
C5_ZeroOrAbove30 ==
    pc \notin {"entry", "opened"} =>
        \A p \in Pixels(size) :
            combined[p] = 0 \/ (combined[p] > 30 /\ combined[p] <= 255)

\* C5 as amended: every combined value is 0 or in [30, 255].
C5_ZeroOrAtLeast30 ==
    pc \notin {"entry", "opened"} =>
        \A p \in Pixels(size) :
            combined[p] = 0 \/ (combined[p] >= 30 /\ combined[p] <= 255)

\* a combined value of exactly 30, which the noise floor keeps
C5_Witness ==
    /\ pc = "combined"
    /\ \E p \in Pixels(size) : combined[p] = 30

\* C6: every image saved from the same source is the same image, whatever
\* was processed before or between.
C6_Deterministic ==
    \A a \in produced, b \in produced : a[1] = b[1] => a[2] = b[2]

\* the same source processed twice with another source in between
C6_Witness ==
    /\ NumEntries >= 3
    /\ \A i \in 1 .. 3 : status[i] = "completed"
    /\ srcFile[1] = srcFile[3] /\ srcFile[1] # srcFile[2]

\* C7: after an invocation has failed, the destination holds the complete
\* final image or is as it was before the call.
C7_NoPartialOutput ==
    drv = "raised" =>
        \/ dstFile[idx] = dstBefore
        \/ dstFile[idx] = Complete(final)

RGBA(r, g, b, a) == <<r, g, b, a>>

\* C8: the painted pixel is decided by the priority edge > offset > faint.
C8_LayerPriority ==
    Painted =>
        \A p \in Pixels(size) :
            result[p] =
                IF combined[p] > 0
                THEN RGBA(0, 255, 220, (9 * combined[p]) \div 10)
                ELSE IF arr_offset[p] > 40
                THEN RGBA(147, 51, 234, Min(180, (4 * arr_offset[p]) \div 10))
                ELSE IF gray[p] > 30
                THEN RGBA(0, Min(80, gray[p] \div 4),
                          Min(70, (22 * gray[p]) \div 100),
                          Min(40, (12 * gray[p]) \div 100))
                ELSE RGBA(0, 0, 0, 0)

\* an offset pixel bright enough for the faint layer: the priority decides
C8_Witness ==
    /\ Painted
    /\ \E p \in Pixels(size) :
          offset_mask[p] /\ gray[p] > 30 /\ result[p][1] = 147

Handled(i) == status[i] = (IF srcFile[i] = Missing THEN "skipped" ELSE "completed")

\* the entries are taken one at a time, in table order, each at most once,
\* and a missing source is never handed to create_wireframe
C9_InOrder ==
    /\ idx \in 1 .. NumEntries + 1
    /\ \A i \in Entries :
          /\ calls[i] <= 1
          /\ srcFile[i] = Missing => calls[i] = 0
          /\ i < idx => Handled(i)
          /\ i > idx => status[i] = "pending" /\ calls[i] = 0
          /\ i = idx => status[i] \in {"pending", "failed"}
    /\ drv = "call" => calls[idx] = 1

C9_AllHandled == drv = "done" /\ \A i \in Entries : Handled(i)

C9_StoppedAtFailure ==
    /\ drv = "raised"
    /\ status[idx] = "failed"
    /\ \A i \in Entries : i > idx => status[i] = "pending"

\* C9 as claimed: the entries are processed in order, a missing source is
\* skipped, every existing source is processed to completion, and the driver
\* ends at "Done" with every entry handled: it never stops anywhere else.
C9_AlwaysReachesDone ==
    /\ C9_InOrder
    /\ \A i \in Entries : status[i] # "failed"
    /\ C9_AllHandled \/ ENABLED Next

\* C9 as amended: the entries are processed in order, a missing source is
\* skipped without a call, every existing source is handed to
\* create_wireframe once, and the driver eventually either reaches "Done"
\* with every entry handled or stops at the first entry whose invocation
\* raised, the later entries untouched.
C9_DoneOrStopped ==
    [](C9_InOrder) /\ <>(C9_AllHandled \/ C9_StoppedAtFailure)

\* "Done" reached after a skipped entry was followed by a completed one
C9_Witness ==
    /\ drv = "done"
    /\ \E i \in Entries, j \in Entries :
          i < j /\ status[i] = "skipped" /\ status[j] = "completed"

\* C10: in the painted image a pixel has alpha 0 exactly if it lies outside
\* all three masks.
C10_AlphaZeroIffUncovered ==
    Painted => \A p \in Pixels(size) : (result[p][4] = 0) <=> ~Covered(p)

\* the weakest faint pixel: luminance 31, alpha trunc(3.72) = 3
C10_Witness ==
    /\ Painted
    /\ \E p \in Pixels(size) : faint_mask[p] /\ gray[p] = 31 /\ result[p][4] = 3

=============================================================================
